---- MODULE Spec2Model ----
(***************************************************************************)
(* A model of the teaching examples of the repository: the Strategy        *)
(* pattern (LLD/Design-Pattern/strategy.py), dependency inversion          *)
(* (LLD/S.O.L.I.D/dip.py), open/closed (ocp.py), interface segregation     *)
(* (isp.py) and Liskov substitution (lsp.py).                              *)
(*                                                                         *)
(* Python values are modelled as strings: "None" is None, "True" is True,  *)
(* an object is named by the variable the demo code holds it in.           *)
(* The outcome of a call is a record [kind, val]: kind "return" with the   *)
(* returned value, or kind "raise" with the exception's class.             *)
(***************************************************************************)
EXTENDS Naturals, Sequences, FiniteSets, TLC

VARIABLES
    strategy,         \* Navigator._strategy of each Navigator ("absent": not constructed)
    message_service,  \* NotificationService.message_service
    database,         \* UserDAO.database
    last,             \* the call completed last, with what it did
    history,          \* the calls one Navigator's caller has made, in order
    pc,               \* where each thread is in Navigator.calculate_route
    frame,            \* each thread's arguments and locals in calculate_route
    design,           \* isp.py, lsp.py: the half of the file whose classes are in use
    created,          \* isp.py: the printers constructed
    ispLast,          \* isp.py: the printer call completed last
    console,          \* isp.py: the lines the printers have printed, in order
    shape,            \* lsp.py: the shape object
    lspLast           \* lsp.py: the call on the shape completed last

dvars == <<strategy, message_service, database, last, history>>
cvars == <<pc, frame>>
ivars == <<created, ispLast, console>>
lvars == <<shape, lspLast>>
vars == <<dvars, cvars, design, ivars, lvars>>

(***************************************************************************)
(* Bounds                                                                  *)
(***************************************************************************)
MaxOps == 4
MaxLines == 2

(***************************************************************************)
(* Call outcomes                                                           *)
(***************************************************************************)
Return(v) == [kind |-> "return", val |-> v]
Raise(e) == [kind |-> "raise", val |-> e]

(***************************************************************************)
(* Objects and classes                                                     *)
(***************************************************************************)
Absent == "absent"

\* The objects a caller passes to Navigator: the three concrete strategies, an
\* instance of the base class, an instance of a subclass the caller wrote whose
\* calculate_route raises, None, and an object of an unrelated class.
NavInputs == {"driving", "walking", "cycling", "base", "failing_route", "none", "email"}

\* The objects a caller passes to NotificationService: the two services, instances
\* of subclasses the caller wrote (one returns a status, one raises), None, and an
\* object of an unrelated class.
NotifInputs == {"email", "sms", "status_service", "failing_service", "none", "driving"}

\* The objects a caller passes to UserDAO: the two databases, an instance of a
\* subclass the caller wrote that returns a status, and None.
DaoInputs == {"mysql", "postgresql", "status_db", "none"}

Locations == {"Home", "Office"}

Messages == {"Hello via Email!", "Hello via SMS!"}

UserData == {"{'name': 'Alice', 'email': 'alice@example.com'}",
             "{'name': 'Bob', 'email': 'bob@example.com'}"}

ClassOf(o) ==
    CASE o = "driving" -> "DrivingStrategy"
      [] o = "walking" -> "WalkingStrategy"
      [] o = "cycling" -> "CyclingStrategy"
      [] o = "base" -> "RouteStrategy"
      [] o = "failing_route" -> "FailingStrategy"
      [] o = "email" -> "EmailService"
      [] o = "sms" -> "SmsService"
      [] o = "status_service" -> "StatusService"
      [] o = "failing_service" -> "FailingService"
      [] o = "mysql" -> "MySQLDatabase"
      [] o = "postgresql" -> "PostgreSQLDatabase"
      [] o = "status_db" -> "StatusDatabase"
      [] OTHER -> "NoneType"

\* The class a class derives from ("object" at the root).
BaseOf(c) ==
    CASE c \in {"DrivingStrategy", "WalkingStrategy", "CyclingStrategy", "FailingStrategy"}
            -> "RouteStrategy"
      [] c \in {"EmailService", "SmsService", "StatusService", "FailingService"}
            -> "MessageService"
      [] c \in {"MySQLDatabase", "PostgreSQLDatabase", "StatusDatabase"} -> "Database"
      [] OTHER -> "object"

IsInstance(o, c) == ClassOf(o) = c \/ BaseOf(ClassOf(o)) = c

\* The methods an instance of the class answers to.
MethodsOf(c) ==
    CASE c = "RouteStrategy" \/ BaseOf(c) = "RouteStrategy" -> {"calculate_route"}
      [] BaseOf(c) = "MessageService" -> {"send_message"}
      [] BaseOf(c) = "Database" -> {"save"}
      [] OTHER -> {}

\* The classes a caller derives from the interfaces: StatusService and
\* StatusDatabase return a delivery status, the Failing ones raise.
CallerDefinedOutcome(c, m, args) ==
    IF c \in {"StatusService", "StatusDatabase"} THEN Return("True")
    ELSE Raise("VariantFailure")

\* A WalkingStrategy copied from DrivingStrategy with its text left as it was.
MethodOutcomeCopied(c, m, args) ==
    IF m \notin MethodsOf(c) THEN Raise("AttributeError")
    ELSE CASE c = "RouteStrategy" -> Return("None")
           [] c \in {"DrivingStrategy", "WalkingStrategy"} ->
                Return("Calculating the fastest driving route from " \o args[1]
                       \o " to " \o args[2])
           [] c = "CyclingStrategy" ->
                Return("Calculating the most scenic cycling route from " \o args[1]
                       \o " to " \o args[2])
           [] c \in {"EmailService", "SmsService", "MySQLDatabase", "PostgreSQLDatabase"} ->
                Return("None")
           [] OTHER -> CallerDefinedOutcome(c, m, args)

\* Strategies that keep state: a route starts where the route asked for last ended.
MethodOutcomeRemembering(c, m, args) ==
    LET from == IF last.op = "calculate_route" THEN last.args[2] ELSE args[1]
    IN  IF m \notin MethodsOf(c) THEN Raise("AttributeError")
        ELSE CASE c = "RouteStrategy" -> Return("None")
               [] c = "DrivingStrategy" ->
                    Return("Calculating the fastest driving route from " \o from
                           \o " to " \o args[2])
               [] c = "WalkingStrategy" ->
                    Return("Calculating the safest walking route from " \o from
                           \o " to " \o args[2])
               [] c = "CyclingStrategy" ->
                    Return("Calculating the most scenic cycling route from " \o from
                           \o " to " \o args[2])
               [] c \in {"EmailService", "SmsService", "MySQLDatabase",
                         "PostgreSQLDatabase"} -> Return("None")
               [] OTHER -> CallerDefinedOutcome(c, m, args)

\* What a method of a class does with its arguments: the value it returns or
\* the exception it raises.
MethodOutcome(c, m, args) ==
    IF m \notin MethodsOf(c) THEN Raise("AttributeError")
    ELSE CASE c = "RouteStrategy" -> Return("None")
           [] c = "DrivingStrategy" ->
                Return("Calculating the fastest driving route from " \o args[1]
                       \o " to " \o args[2])
           [] c = "WalkingStrategy" ->
                Return("Calculating the safest walking route from " \o args[1]
                       \o " to " \o args[2])
           [] c = "CyclingStrategy" ->
                Return("Calculating the most scenic cycling route from " \o args[1]
                       \o " to " \o args[2])
           [] c \in {"EmailService", "SmsService", "MySQLDatabase", "PostgreSQLDatabase"} ->
                Return("None")
           [] OTHER -> CallerDefinedOutcome(c, m, args)

\* The lines a method of a class prints.
MethodOutput(c, m, args) ==
    IF m \notin MethodsOf(c) THEN <<>>
    ELSE CASE c = "EmailService" -> <<"Sending email: " \o args[1]>>
           [] c = "SmsService" -> <<"Sending SMS: " \o args[1]>>
           [] c = "MySQLDatabase" -> <<"Saving " \o args[1] \o " to MySQL database...">>
           [] c = "PostgreSQLDatabase" ->
                <<"Saving " \o args[1] \o " to PostgreSQL database...">>
           [] OTHER -> <<>>

(***************************************************************************)
(* The record of a completed call                                          *)
(***************************************************************************)
NoCall ==
    [op |-> "none", self |-> "-", args |-> <<>>, outcome |-> Return("None"),
     before |-> Absent, target |-> "-", passed |-> <<>>, direct |-> Return("None"),
     ncalls |-> 0, out |-> <<>>]

\* A constructor or setter call: it forwards nothing.
Bound(op, self, arg, before) ==
    [NoCall EXCEPT !.op = op, !.self = self, !.args = <<arg>>, !.before = before]

\* A forwarding call: `target` is the object the dispatcher held, `m` the method
\* it calls on it with `passed`, `outcome` what the dispatcher's caller gets.
Forwarded(op, self, args, target, m, passed, outcome) ==
    [op |-> op, self |-> self, args |-> args, outcome |-> outcome,
     before |-> target, target |-> target, passed |-> passed,
     direct |-> MethodOutcome(ClassOf(target), m, passed),
     ncalls |-> IF m \in MethodsOf(ClassOf(target)) THEN 1 ELSE 0,
     out |-> MethodOutput(ClassOf(target), m, passed)]

(***************************************************************************)
(* Navigator (strategy.py)                                                 *)
(***************************************************************************)
Navs == {"nav1", "nav2"}

\* A rebind that is lost: the Navigator keeps the strategy it was constructed with.
RebindIgnored(bindings, n, s) ==
    IF bindings[n] = Absent THEN [bindings EXCEPT ![n] = s] ELSE bindings

\* A rebind that lands on the class instead of the instance: every Navigator sees it.
RebindShared(bindings, n, s) ==
    [m \in DOMAIN bindings |-> IF m = n \/ bindings[m] # Absent THEN s ELSE bindings[m]]

\* self._strategy = strategy, in __init__ and in set_strategy
SetAttr(bindings, n, s) == [bindings EXCEPT ![n] = s]

\* A dispatcher that catches its variant's failure and returns None instead.
FailureSwallowed(direct) ==
    IF direct.kind = "raise" THEN Return("None") ELSE direct

\* return self._strategy.calculate_route(start, end)
NavigatorResult(direct) == direct

NavigatorInitStep(n, s) ==
    /\ strategy[n] = Absent
    /\ strategy' = SetAttr(strategy, n, s)
    /\ last' = Bound("__init__", n, s, Absent)
    /\ UNCHANGED <<message_service, database, cvars, design, ivars, lvars>>

SetStrategyStep(n, s) ==
    /\ strategy[n] # Absent
    /\ strategy' = SetAttr(strategy, n, s)
    /\ last' = Bound("set_strategy", n, s, strategy[n])
    /\ UNCHANGED <<message_service, database, cvars, design, ivars, lvars>>

CalculateRouteCall(n, start, end) ==
    Forwarded("calculate_route", n, <<start, end>>, strategy[n], "calculate_route",
              <<start, end>>,
              NavigatorResult(MethodOutcome(ClassOf(strategy[n]), "calculate_route",
                                            <<start, end>>)))

CalculateRouteStep(n, start, end) ==
    /\ strategy[n] # Absent
    /\ last' = CalculateRouteCall(n, start, end)
    /\ UNCHANGED <<strategy, message_service, database, cvars, design, ivars, lvars>>

NavigatorInit(n, s) == NavigatorInitStep(n, s) /\ UNCHANGED history

set_strategy(n, s) == SetStrategyStep(n, s) /\ UNCHANGED history

calculate_route(n, start, end) == CalculateRouteStep(n, start, end) /\ UNCHANGED history

\* One Navigator, whose caller keeps every call made and every result received.
Caller == "nav1"

CallerConstructs(s) ==
    /\ Len(history) < MaxOps
    /\ NavigatorInitStep(Caller, s)
    /\ history' = Append(history, last')

CallerRebinds(s) ==
    /\ Len(history) < MaxOps
    /\ SetStrategyStep(Caller, s)
    /\ history' = Append(history, last')

CallerInvokes(start, end) ==
    /\ Len(history) < MaxOps
    /\ CalculateRouteStep(Caller, start, end)
    /\ history' = Append(history, last')

(***************************************************************************)
(* NotificationService (dip.py) and UserDAO (ocp.py)                       *)
(***************************************************************************)
\* self.message_service.send_message(message), with no return statement:
\* an exception passes through, a returned value is dropped.
SendNotificationResult(direct) ==
    IF direct.kind = "raise" THEN direct ELSE Return("None")

\* self.database.save(user_data), with no return statement
SaveUserResult(direct) ==
    IF direct.kind = "raise" THEN direct ELSE Return("None")

NotificationServiceInit(s) ==
    /\ message_service' = s
    /\ last' = Bound("__init__", "notification_service", s, message_service)
    /\ UNCHANGED <<strategy, database, history, cvars, design, ivars, lvars>>

send_notification(message) ==
    /\ message_service # Absent
    /\ last' = Forwarded("send_notification", "notification_service", <<message>>,
                         message_service, "send_message", <<message>>,
                         SendNotificationResult(
                             MethodOutcome(ClassOf(message_service), "send_message",
                                           <<message>>)))
    /\ UNCHANGED <<strategy, message_service, database, history, cvars, design, ivars, lvars>>

UserDAOInit(d) ==
    /\ database' = d
    /\ last' = Bound("__init__", "user_dao", d, database)
    /\ UNCHANGED <<strategy, message_service, history, cvars, design, ivars, lvars>>

save_user(user_data) ==
    /\ database # Absent
    /\ last' = Forwarded("save_user", "user_dao", <<user_data>>, database, "save",
                         <<user_data>>,
                         SaveUserResult(MethodOutcome(ClassOf(database), "save",
                                                      <<user_data>>)))
    /\ UNCHANGED <<strategy, message_service, database, history, cvars, design, ivars, lvars>>

(***************************************************************************)
(* Navigator.calculate_route and set_strategy called from several threads  *)
(* (strategy.py:80-84).  calculate_route reads self._strategy once, then   *)
(* calls calculate_route on the object it read; set_strategy is one        *)
(* attribute store.  The interpreter runs each read and each store whole.  *)
(***************************************************************************)
Threads == {"t1", "t2"}

\* The strategies the threads rebind the Navigator to.
ConcInputs == {"driving", "walking", "cycling"}

\* window: the values self._strategy has held since the call was entered and
\* before it was read; local: the object read; served: the object whose method ran.
NoFrame ==
    [args |-> <<>>, window |-> {}, local |-> "-", served |-> "-",
     outcome |-> Return("None")]

\* A call that reads self._strategy again when it calls the method.
ServingObjectReread(t) == strategy[Caller]

\* The object whose calculate_route runs: the one read from self._strategy.
ServingObject(t) == frame[t].local

Enter(t, start, end) ==
    /\ pc[t] = "idle"
    /\ pc' = [pc EXCEPT ![t] = "entered"]
    /\ frame' = [frame EXCEPT ![t] = [NoFrame EXCEPT !.args = <<start, end>>,
                                                      !.window = {strategy[Caller]}]]
    /\ UNCHANGED <<dvars, design, ivars, lvars>>

LoadStrategy(t) ==
    /\ pc[t] = "entered"
    /\ pc' = [pc EXCEPT ![t] = "loaded"]
    /\ frame' = [frame EXCEPT ![t].local = strategy[Caller]]
    /\ UNCHANGED <<dvars, design, ivars, lvars>>

CallStrategy(t) ==
    /\ pc[t] = "loaded"
    /\ pc' = [pc EXCEPT ![t] = "returned"]
    /\ frame' = [frame EXCEPT
                    ![t].served = ServingObject(t),
                    ![t].outcome = NavigatorResult(
                        MethodOutcome(ClassOf(ServingObject(t)), "calculate_route",
                                      frame[t].args))]
    /\ UNCHANGED <<dvars, design, ivars, lvars>>

Leave(t) ==
    /\ pc[t] = "returned"
    /\ pc' = [pc EXCEPT ![t] = "idle"]
    /\ frame' = [frame EXCEPT ![t] = NoFrame]
    /\ UNCHANGED <<dvars, design, ivars, lvars>>

ConcurrentSetStrategy(s) ==
    /\ strategy' = SetAttr(strategy, Caller, s)
    /\ frame' = [t \in Threads |->
                    IF pc[t] = "entered"
                    THEN [frame[t] EXCEPT !.window = frame[t].window \cup {s}]
                    ELSE frame[t]]
    /\ UNCHANGED <<message_service, database, last, history, pc, design, ivars, lvars>>

(***************************************************************************)
(* Printers (isp.py).  design "violation": the one Printer interface with  *)
(* print, scan and fax (isp.py:28-63); design "adhering": the interfaces   *)
(* Printer, Scanner and Fax (isp.py:91-124).                               *)
(***************************************************************************)
Designs == {"violation", "adhering"}

Printers == {"simple_printer", "multifunction_printer"}

PrinterOps == {"print", "scan", "fax"}

Documents == {"My Document", "Invoice"}

PrinterClassOf(o) ==
    IF o = "simple_printer" THEN "SimplePrinter" ELSE "MultifunctionPrinter"

\* The methods the class defines in the design.
PrinterMethods(d, c) ==
    IF d = "adhering" /\ c = "SimplePrinter" THEN {"print"} ELSE PrinterOps

PrinterOutcome(d, c, op, doc) ==
    IF op \notin PrinterMethods(d, c) THEN Raise("AttributeError")
    ELSE IF c = "SimplePrinter" /\ op \in {"scan", "fax"} THEN Raise("NotImplementedError")
    ELSE Return("None")

PrinterOutput(d, c, op, doc) ==
    IF PrinterOutcome(d, c, op, doc).kind = "raise" THEN <<>>
    ELSE CASE op = "print" -> <<"Printing: " \o doc>>
           [] op = "scan" -> <<"Scanning: " \o doc>>
           [] OTHER -> <<"Faxing: " \o doc>>

NoPrinterCall == [obj |-> "-", op |-> "none", doc |-> "", outcome |-> Return("None"),
                  out |-> <<>>]

PrinterInit(o) ==
    /\ o \notin created
    /\ created' = created \cup {o}
    /\ ispLast' = [NoPrinterCall EXCEPT !.obj = o, !.op = "__init__"]
    /\ UNCHANGED <<dvars, cvars, design, console, lvars>>

PrinterCall(o, op, doc) ==
    /\ o \in created
    /\ Len(console \o PrinterOutput(design, PrinterClassOf(o), op, doc)) <= MaxLines
    /\ ispLast' = [obj |-> o, op |-> op, doc |-> doc,
                   outcome |-> PrinterOutcome(design, PrinterClassOf(o), op, doc),
                   out |-> PrinterOutput(design, PrinterClassOf(o), op, doc)]
    /\ console' = console \o PrinterOutput(design, PrinterClassOf(o), op, doc)
    /\ UNCHANGED <<dvars, cvars, design, created, lvars>>

(***************************************************************************)
(* Shapes (lsp.py).  design "violation": Square derives from Rectangle     *)
(* (lsp.py:25-50); design "adhering": Rectangle and Square both derive     *)
(* from Shape (lsp.py:90-121).  An attribute the object lacks is 0.        *)
(***************************************************************************)
MaxDim == 3

Dims == 1..MaxDim

NoShapeObject == [cls |-> "-", width |-> 0, height |-> 0, side |-> 0]

\* isinstance(o, Rectangle)
IsRectangle(d, o) == o.cls = "Rectangle" \/ (o.cls = "Square" /\ d = "violation")

ShapeMethods(d, o) ==
    CASE o.cls = "Rectangle" -> {"set_width", "set_height", "area"}
      [] o.cls = "Square" /\ d = "violation" -> {"set_width", "set_height", "area"}
      [] o.cls = "Square" -> {"set_side", "area"}
      [] OTHER -> {}

\* A Square that inherits Rectangle's setters unchanged.
SetWidthInherited(d, o, w) ==
    IF "set_width" \in ShapeMethods(d, o) THEN [o EXCEPT !.width = w] ELSE o

\* The object after set_width(w); unchanged when it has no such method.
SetWidth(d, o, w) ==
    CASE o.cls = "Rectangle" -> [o EXCEPT !.width = w]
      [] o.cls = "Square" /\ d = "violation" -> [o EXCEPT !.width = w, !.height = w]
      [] OTHER -> o

\* The object after set_height(h)
SetHeight(d, o, h) ==
    CASE o.cls = "Rectangle" -> [o EXCEPT !.height = h]
      [] o.cls = "Square" /\ d = "violation" -> [o EXCEPT !.width = h, !.height = h]
      [] OTHER -> o

\* The object after set_side(side)
SetSide(d, o, side) ==
    IF "set_side" \in ShapeMethods(d, o) THEN [o EXCEPT !.side = side] ELSE o

Area(d, o) ==
    IF o.cls = "Square" /\ d = "adhering" THEN o.side * o.side ELSE o.width * o.height

\* What a call of method m gives its caller.
ShapeOutcome(d, o, m) ==
    IF m \in ShapeMethods(d, o) THEN Return("None") ELSE Raise("AttributeError")

\* area: the area the call returned or printed, 0 when it did neither.
NoShapeCall == [op |-> "none", arg |-> 0, outcome |-> Return("None"),
                before |-> NoShapeObject, area |-> 0]

ShapeCall(op, arg, outcome, before, area) ==
    [op |-> op, arg |-> arg, outcome |-> outcome, before |-> before, area |-> area]

RectangleInit(w, h) ==
    /\ shape' = [cls |-> "Rectangle", width |-> w, height |-> h, side |-> 0]
    /\ lspLast' = ShapeCall("Rectangle", w, Return("None"), shape, 0)
    /\ UNCHANGED <<dvars, cvars, design, ivars>>

SquareInit(side) ==
    /\ shape' = IF design = "violation"
                THEN [cls |-> "Square", width |-> side, height |-> side, side |-> 0]
                ELSE [cls |-> "Square", width |-> 0, height |-> 0, side |-> side]
    /\ lspLast' = ShapeCall("Square", side, Return("None"), shape, 0)
    /\ UNCHANGED <<dvars, cvars, design, ivars>>

set_width(w) ==
    /\ shape # NoShapeObject
    /\ shape' = SetWidth(design, shape, w)
    /\ lspLast' = ShapeCall("set_width", w, ShapeOutcome(design, shape, "set_width"),
                            shape, 0)
    /\ UNCHANGED <<dvars, cvars, design, ivars>>

set_height(h) ==
    /\ shape # NoShapeObject
    /\ shape' = SetHeight(design, shape, h)
    /\ lspLast' = ShapeCall("set_height", h, ShapeOutcome(design, shape, "set_height"),
                            shape, 0)
    /\ UNCHANGED <<dvars, cvars, design, ivars>>

set_side(side) ==
    /\ shape # NoShapeObject
    /\ shape' = SetSide(design, shape, side)
    /\ lspLast' = ShapeCall("set_side", side, ShapeOutcome(design, shape, "set_side"),
                            shape, 0)
    /\ UNCHANGED <<dvars, cvars, design, ivars>>

area ==
    /\ shape # NoShapeObject
    /\ lspLast' = ShapeCall("area", 0, Return("None"), shape, Area(design, shape))
    /\ UNCHANGED <<dvars, cvars, design, ivars, shape>>

\* rectangle.set_width(5); rectangle.set_height(4); print(... rectangle.area())
use_rectangle ==
    /\ shape # NoShapeObject
    /\ LET out == ShapeOutcome(design, shape, "set_width")
           after == SetHeight(design, SetWidth(design, shape, 5), 4)
       IN  /\ shape' = after
           /\ lspLast' = ShapeCall("use_rectangle", 0, out, shape,
                                   IF out.kind = "raise" THEN 0 ELSE Area(design, after))
    /\ UNCHANGED <<dvars, cvars, design, ivars>>

\* The isinstance tests of use_shape name the classes of the adhering design.
use_shape ==
    /\ shape # NoShapeObject
    /\ LET after == CASE design = "adhering" /\ shape.cls = "Rectangle" ->
                            SetHeight(design, SetWidth(design, shape, 5), 4)
                      [] design = "adhering" /\ shape.cls = "Square" ->
                            SetSide(design, shape, 4)
                      [] OTHER -> shape
       IN  /\ shape' = after
           /\ lspLast' = ShapeCall("use_shape", 0, Return("None"), shape,
                                   Area(design, after))
    /\ UNCHANGED <<dvars, cvars, design, ivars>>

(***************************************************************************)
(* Specifications                                                          *)
(***************************************************************************)
\* The parts of the state an example does not use stay as they start.
IdleThreads ==
    /\ pc = [t \in Threads |-> "idle"]
    /\ frame = [t \in Threads |-> NoFrame]

NoDispatchers ==
    /\ message_service = Absent
    /\ database = Absent
    /\ last = NoCall
    /\ history = <<>>

NoPrinters ==
    /\ created = {}
    /\ ispLast = NoPrinterCall
    /\ console = <<>>

NoShape ==
    /\ shape = NoShapeObject
    /\ lspLast = NoShapeCall

DispatchInit ==
    /\ strategy = [n \in Navs |-> Absent]
    /\ NoDispatchers
    /\ IdleThreads
    /\ design = "-"
    /\ NoPrinters
    /\ NoShape

\* One Navigator and the history of its caller's calls.
Init == DispatchInit

Next ==
    \/ \E s \in NavInputs : CallerConstructs(s)
    \/ \E s \in NavInputs : CallerRebinds(s)
    \/ \E start \in Locations, end \in Locations : CallerInvokes(start, end)

Spec == Init /\ [][Next]_vars

\* One Navigator bound to the three route strategies in turn, asked for routes
\* between the demo's locations, the empty string and None (which an f-string
\* formats as "None").
RouteVariants == {"driving", "walking", "cycling"}

RouteLocations == Locations \cup {"", "None"}

RouteNext ==
    \/ \E s \in RouteVariants : CallerConstructs(s)
    \/ \E s \in RouteVariants : CallerRebinds(s)
    \/ \E start \in RouteLocations, end \in RouteLocations : CallerInvokes(start, end)

SpecRoute == DispatchInit /\ [][RouteNext]_vars

\* A Navigator, a NotificationService and a UserDAO.
DispatchNext ==
    \/ \E s \in NavInputs : NavigatorInit(Caller, s)
    \/ \E s \in NavInputs : set_strategy(Caller, s)
    \/ \E start \in Locations, end \in Locations : calculate_route(Caller, start, end)
    \/ \E s \in NotifInputs : NotificationServiceInit(s)
    \/ \E m \in Messages : send_notification(m)
    \/ \E d \in DaoInputs : UserDAOInit(d)
    \/ \E u \in UserData : save_user(u)

SpecDispatch == DispatchInit /\ [][DispatchNext]_vars

\* Several Navigators, any of which may hold the same strategy object.
SharedNext ==
    \/ \E n \in Navs, s \in NavInputs : NavigatorInit(n, s)
    \/ \E n \in Navs, s \in NavInputs : set_strategy(n, s)
    \/ \E n \in Navs, start \in Locations, end \in Locations : calculate_route(n, start, end)

SpecShared == DispatchInit /\ [][SharedNext]_vars

\* One Navigator, constructed, shared by the threads.
ConcInit ==
    /\ \E s \in ConcInputs : strategy = [n \in Navs |-> IF n = Caller THEN s ELSE Absent]
    /\ NoDispatchers
    /\ IdleThreads
    /\ design = "-"
    /\ NoPrinters
    /\ NoShape

ConcNext ==
    \/ \E t \in Threads, start \in Locations, end \in Locations : Enter(t, start, end)
    \/ \E t \in Threads : LoadStrategy(t)
    \/ \E t \in Threads : CallStrategy(t)
    \/ \E t \in Threads : Leave(t)
    \/ \E s \in ConcInputs : ConcurrentSetStrategy(s)

SpecConc == ConcInit /\ [][ConcNext]_vars

\* Either design of isp.py or lsp.py, with nothing constructed yet.
ExamplesInit ==
    /\ strategy = [n \in Navs |-> Absent]
    /\ NoDispatchers
    /\ IdleThreads
    /\ design \in Designs
    /\ NoPrinters
    /\ NoShape

IspNext ==
    \/ \E o \in Printers : PrinterInit(o)
    \/ \E o \in Printers, op \in PrinterOps, doc \in Documents : PrinterCall(o, op, doc)

SpecIsp == ExamplesInit /\ [][IspNext]_vars

\* One shape of either design.
LspNext ==
    \/ \E w \in Dims, h \in Dims : RectangleInit(w, h)
    \/ \E side \in Dims : SquareInit(side)
    \/ \E w \in Dims : set_width(w)
    \/ \E h \in Dims : set_height(h)
    \/ \E side \in Dims : set_side(side)
    \/ area
    \/ use_rectangle
    \/ use_shape

SpecLsp == ExamplesInit /\ [][LspNext]_vars

(***************************************************************************)
(* Vocabulary of the properties                                            *)
(***************************************************************************)
ForwardOps == {"calculate_route", "send_notification", "save_user"}

BindOps == {"__init__", "set_strategy"}

\* The class the dispatcher's parameter is annotated with.
RequiredClass(self) ==
    CASE self \in Navs -> "RouteStrategy"
      [] self = "notification_service" -> "MessageService"
      [] OTHER -> "Database"

\* The variant the dispatcher holds.
Binding(self) ==
    CASE self \in Navs -> strategy[self]
      [] self = "notification_service" -> message_service
      [] OTHER -> database

Conforms(o, self) == IsInstance(o, RequiredClass(self))

\* A conforming variant that gives the operation a body of its own.
Implements(o, self) == Conforms(o, self) /\ ClassOf(o) # RequiredClass(self)

\* The argument of the latest constructor or set_strategy call before call i.
BoundBefore(i) ==
    LET js == {j \in 1..(i - 1) : history[j].op \in BindOps}
        j == CHOOSE k \in js : \A l \in js : l <= k
    IN  history[j].args[1]

(***************************************************************************)
(* C1. Forwarding is transparent: for every conforming variant bound to a  *)
(* Navigator, NotificationService or UserDAO, the dispatcher's operation   *)
(* calls the variant's operation once with the same arguments and returns  *)
(* exactly what the variant's operation returns.                           *)
(* Fails: send_notification and save_user have no return statement.        *)
(***************************************************************************)
C1_ForwardingTransparent ==
    (last.op \in ForwardOps /\ Conforms(last.target, last.self)) =>
        /\ last.ncalls = 1
        /\ last.passed = last.args
        /\ last.outcome = last.direct

(***************************************************************************)
(* C2. Rebinding is immediate and total: every calculate_route call of a   *)
(* Navigator is served by the variant passed to the most recent            *)
(* set_strategy (or to the constructor), and the results already returned  *)
(* are not altered by a later call.                                        *)
(***************************************************************************)
ServedByMostRecent ==
    \A i \in 1..Len(history) :
        history[i].op = "calculate_route" =>
            /\ history[i].target = BoundBefore(i)
            /\ history[i].outcome =
                   MethodOutcome(ClassOf(BoundBefore(i)), "calculate_route", history[i].args)

C2_RebindImmediate ==
    /\ []ServedByMostRecent
    /\ [][\A i \in 1..Len(history) : history'[i] = history[i]]_vars

\* A call served by the strategy of a rebind, after a call the constructor's
\* strategy served with another result.
C2_Witness ==
    \E i \in 1..Len(history), j \in 1..Len(history), k \in 1..Len(history) :
        /\ i < j /\ j < k
        /\ history[i].op = "calculate_route"
        /\ history[j].op = "set_strategy"
        /\ history[k].op = "calculate_route"
        /\ history[k].target = history[j].args[1]
        /\ history[k].target # history[i].target
        /\ history[k].args = history[i].args
        /\ history[k].outcome # history[i].outcome

(***************************************************************************)
(* C3. Constructing a dispatcher with, or rebinding it to, a variant that  *)
(* does not conform to the required capability always fails with           *)
(* ContractMismatch, and a failed rebind leaves the binding as it was.     *)
(* Fails: the annotation is not enforced, any object is accepted.          *)
(***************************************************************************)
C3_NonConformingRejected ==
    (last.op \in BindOps /\ ~Conforms(last.args[1], last.self)) =>
        /\ last.outcome = Raise("ContractMismatch")
        /\ Binding(last.self) = last.before

(***************************************************************************)
(* C4. Once constructed, a Navigator is always bound to one variant that   *)
(* implements calculate_route: never to nothing, never to an empty variant *)
(* such as the base RouteStrategy.                                         *)
(* Fails: Navigator(RouteStrategy()) and Navigator(None) are accepted.     *)
(***************************************************************************)
C4_AlwaysImplementingBinding ==
    \A n \in Navs : strategy[n] # Absent => Implements(strategy[n], n)

(***************************************************************************)
(* C5. A variant's own failure raised during the dispatcher's operation    *)
(* reaches the caller unchanged, after one call of the variant, and the    *)
(* dispatcher's binding is the same variant as before.                     *)
(***************************************************************************)
C5_FailurePropagates ==
    (last.op \in ForwardOps /\ last.ncalls > 0 /\ last.direct.kind = "raise") =>
        /\ last.outcome = last.direct
        /\ last.ncalls = 1
        /\ Binding(last.self) = last.before

C5_Witness ==
    /\ last.op = "calculate_route"
    /\ last.target = "failing_route"
    /\ last.outcome = Raise("VariantFailure")
    /\ strategy[last.self] = "failing_route"

(***************************************************************************)
(* C6. A variant that does not declare a capability is never invocable for *)
(* it: binding the print-only SimplePrinter where scanning or faxing is    *)
(* required fails before any invocation, so no call of scan or fax on a    *)
(* SimplePrinter ends in a run-time failure.                               *)
(* Fails: nothing checks a printer before it is called; scan and fax raise *)
(* NotImplementedError in one design and AttributeError in the other.      *)
(***************************************************************************)
C6_NoRuntimeUnsupported ==
    ~(/\ ispLast.obj = "simple_printer"
      /\ ispLast.op \in {"scan", "fax"}
      /\ ispLast.outcome.kind = "raise")

(***************************************************************************)
(* C7. A NotificationService bound to the email variant delivers the       *)
(* message by email, one bound to the SMS variant delivers it by SMS and   *)
(* not by email, and each delivery reports success or failure to the       *)
(* caller instead of returning nothing.                                    *)
(* Fails: send_message and send_notification return None.                  *)
(***************************************************************************)
C7_DeliveryReported ==
    (last.op = "send_notification" /\ last.target \in {"email", "sms"}) =>
        /\ last.target = "email" => last.out = <<"Sending email: " \o last.args[1]>>
        /\ last.target = "sms" => last.out = <<"Sending SMS: " \o last.args[1]>>
        /\ last.outcome # Return("None")

(***************************************************************************)
(* C8. Navigators bound to the same variant do not interfere: set_strategy *)
(* on one Navigator changes that Navigator's binding only, and every other *)
(* Navigator keeps returning the results of the variant it holds.          *)
(***************************************************************************)
C8_RebindIsLocal ==
    [][last'.op = "set_strategy" =>
          \A m \in Navs \ {last'.self} :
              /\ strategy'[m] = strategy[m]
              /\ strategy[m] # Absent =>
                    \A start \in Locations, end \in Locations :
                        CalculateRouteCall(m, start, end)' = CalculateRouteCall(m, start, end)
      ]_vars

\* One Navigator has left the variant that the other still holds.
C8_Witness ==
    /\ last.op = "set_strategy"
    /\ last.self = "nav1"
    /\ last.before = "driving"
    /\ strategy["nav2"] = "driving"
    /\ strategy["nav1"] = "walking"

(***************************************************************************)
(* C9. The test "set one dimension, the other dimension is unchanged"      *)
(* (and so set_width(5); set_height(4) gives area 20) holds for every      *)
(* Rectangle and fails for the Square that derives from Rectangle, whose   *)
(* setters change both dimensions (area 16); in the redesign Square is not *)
(* a Rectangle and has no set_width or set_height, so no object usable as  *)
(* a Rectangle fails the test.                                             *)
(***************************************************************************)
\* The dimension the setter called last was not asked to change is unchanged.
OtherDimensionUnchanged ==
    IF lspLast.op = "set_width" THEN shape.height = lspLast.before.height
    ELSE shape.width = lspLast.before.width

DerivedSquare(o) == o.cls = "Square" /\ design = "violation"

C9_Substitutability ==
    LET b == lspLast.before
    IN  /\ (lspLast.op \in {"set_width", "set_height"} /\ IsRectangle(design, b)) =>
              /\ lspLast.outcome = Return("None")
              /\ lspLast.op = "set_width" => shape.width = lspLast.arg
              /\ lspLast.op = "set_height" => shape.height = lspLast.arg
              /\ ~DerivedSquare(b) => OtherDimensionUnchanged
              /\ DerivedSquare(b) =>
                    /\ shape.width = lspLast.arg /\ shape.height = lspLast.arg
                    /\ OtherDimensionUnchanged <=> lspLast.arg = b.width
        /\ (lspLast.op = "use_rectangle" /\ b.cls = "Rectangle") => lspLast.area = 20
        /\ (lspLast.op = "use_rectangle" /\ DerivedSquare(b)) => lspLast.area = 16
        /\ (design = "adhering" /\ b.cls = "Square") =>
              /\ ~IsRectangle(design, b)
              /\ lspLast.op \in {"set_width", "set_height", "use_rectangle"} =>
                    /\ lspLast.outcome = Raise("AttributeError")
                    /\ shape = b

\* use_rectangle has run on a Square that derives from Rectangle.
C9_Witness ==
    /\ lspLast.op = "use_rectangle"
    /\ DerivedSquare(lspLast.before)
    /\ lspLast.area = 16
    /\ Area(design, shape) # 20

(***************************************************************************)
(* C10. When set_strategy and calculate_route run concurrently on one      *)
(* Navigator, every calculate_route call is served entirely by one         *)
(* variant: the one bound when the call was entered or one bound by a      *)
(* set_strategy since, never by none and never by a mixture of two.        *)
(***************************************************************************)
C10_NonTornBinding ==
    \A t \in Threads :
        /\ pc[t] \in {"loaded", "returned"} =>
              /\ frame[t].local \in frame[t].window
              /\ IsInstance(frame[t].local, "RouteStrategy")
        /\ pc[t] = "returned" =>
              /\ frame[t].served = frame[t].local
              /\ frame[t].outcome =
                     MethodOutcome(ClassOf(frame[t].local), "calculate_route", frame[t].args)

\* A call that was entered under one strategy and served by the one a
\* concurrent set_strategy bound, while the Navigator has moved on to a third.
C10_Witness ==
    \E t \in Threads :
        /\ pc[t] = "returned"
        /\ Cardinality(frame[t].window) = 2
        /\ frame[t].served \in frame[t].window
        /\ strategy[Caller] \notin frame[t].window

(***************************************************************************)
(* C11. A Navigator bound to the driving variant, asked for the route from *)
(* Home to Office, returns a driving-specific description that contains    *)
(* both endpoints; after rebinding to the walking variant the same         *)
(* arguments return a walking-specific description that contains both      *)
(* endpoints and differs from the first.  The three route variants return  *)
(* pairwise distinct descriptions for the same (start, end).               *)
(***************************************************************************)
\* sub occurs in the string s
Contains(s, sub) ==
    \E i \in 1..(Len(s) - Len(sub) + 1) : SubSeq(s, i, i + Len(sub) - 1) = sub

\* The word that names the variant's way of travelling.
ModeOf(o) ==
    CASE o = "driving" -> "driving" [] o = "walking" -> "walking" [] OTHER -> "cycling"

RouteCalls == {i \in 1..Len(history) : history[i].op = "calculate_route"}

\* The call completed last returned a description of its variant's own kind
\* that names both endpoints.
LastRouteIsSpecific ==
    last.op = "calculate_route" =>
        /\ last.outcome.kind = "return"
        /\ Contains(last.outcome.val, ModeOf(last.target) \o " route")
        /\ \A o \in RouteVariants \ {last.target} : ~Contains(last.outcome.val, ModeOf(o))
        /\ Contains(last.outcome.val, "from " \o last.args[1] \o " to " \o last.args[2])

C11_VariantSpecificRoutes ==
    /\ LastRouteIsSpecific
    /\ \A i \in RouteCalls, j \in RouteCalls :
          (history[i].args = history[j].args /\ history[i].target # history[j].target)
              => history[i].outcome # history[j].outcome

\* The demo's scenario: driving from Home to Office, a rebind to walking, the
\* same call again.
C11_Witness ==
    \E i \in RouteCalls, j \in RouteCalls :
        /\ i < j
        /\ history[i].target = "driving" /\ history[i].args = <<"Home", "Office">>
        /\ history[j].target = "walking" /\ history[j].args = <<"Home", "Office">>
        /\ \E k \in (i + 1)..(j - 1) :
              history[k].op = "set_strategy" /\ history[k].args = <<"walking">>
        /\ Contains(history[i].outcome.val, "driving")
        /\ Contains(history[j].outcome.val, "walking")
        /\ history[i].outcome # history[j].outcome

(***************************************************************************)
(* C12. Route calculation is deterministic and free of side effects: a     *)
(* calculate_route call leaves the Navigator's binding as it was, two      *)
(* calls with the same bound variant and the same (start, end) return      *)
(* equal results whatever calls came between them, and empty or invalid    *)
(* locations yield a description rather than a failure.                    *)
(***************************************************************************)
SameCallSameResult ==
    \A i \in RouteCalls, j \in RouteCalls :
        (history[i].target = history[j].target /\ history[i].args = history[j].args)
            => history[i].outcome = history[j].outcome

\* Whatever the locations, the call completed last returned a sentence.
LastRouteIsDescription ==
    last.op = "calculate_route" =>
        /\ last.outcome.kind = "return"
        /\ last.outcome.val # "None"
        /\ Contains(last.outcome.val, " route from ")

C12_DeterministicRoutes ==
    /\ [](SameCallSameResult /\ LastRouteIsDescription)
    /\ [][(last'.op = "calculate_route" /\ history' # history) => strategy' = strategy]_vars

\* The same call twice under one binding, with a call for an empty and an
\* invalid location between them.
C12_Witness ==
    \E i \in RouteCalls, j \in RouteCalls, k \in RouteCalls :
        /\ i < k /\ k < j
        /\ history[i].target = history[j].target
        /\ history[i].args = history[j].args
        /\ history[k].args = <<"", "None">>
        /\ history[k].outcome.kind = "return"
        /\ history[i].outcome = history[j].outcome
        /\ strategy[Caller] = history[i].target

====
